---------------------------- MODULE Spec2Model ----------------------------
(***************************************************************************)
(* A model of app.py, the Flask "Python Code Analyzer": the request        *)
(* handler index(), the orchestrator analyze_code_string() and the three   *)
(* scorers run_pylint(), cc_to_score() and halstead_scores().              *)
(*                                                                         *)
(* Numbers.  A Python float that is a score, a rating or a bug count is    *)
(* represented in fixed point: the float x is the integer x * Unit.        *)
(* Halstead effort values are whole numbers and are kept unscaled.         *)
(*                                                                         *)
(* Text.  A Python str is a sequence of tokens.  A token is a record       *)
(* [k, s, n]: a literal piece of text (k = "lit", the text in s), a        *)
(* maximal numeric literal -?\d+(\.\d+)? (k = "num", its value in n), the  *)
(* name of a temporary file (k = "path", the uuid in n) or the message of  *)
(* an exception (k = "msg", the message in s).  String concatenation is    *)
(* \o.                                                                     *)
(***************************************************************************)
EXTENDS Integers, Sequences, FiniteSets, TLC

(***************************************************************************)
(* Bounds of the model.                                                    *)
(***************************************************************************)
MaxRequests == 2        \* requests served by the process
MaxUnits == 2           \* code units cc_visit reports for one snippet
MaxRecords == 2         \* records h_visit reports for one snippet
MaxText == 5            \* tokens of a tool output the parser is run on

(***************************************************************************)
(* Fixed point.                                                            *)
(***************************************************************************)
Unit == 10000
Cent == Unit \div 100
Ten == 10 * Unit

\* round(x, 2) of the float x: to the nearest hundredth, a tie to the even one.
Round2(x) ==
    LET q == x \div Cent
        r == x % Cent
    IN  IF 2 * r < Cent THEN q * Cent
        ELSE IF 2 * r > Cent THEN (q + 1) * Cent
        ELSE IF q % 2 = 0 THEN q * Cent ELSE (q + 1) * Cent

\* round(p / q, 2) of the quotient of two integers, q > 0.
Round2Ratio(p, q) ==
    LET n == (100 * p) \div q
        r == (100 * p) % q
    IN  IF 2 * r < q THEN n * Cent
        ELSE IF 2 * r > q THEN (n + 1) * Cent
        ELSE IF n % 2 = 0 THEN n * Cent ELSE (n + 1) * Cent

Min(a, b) == IF a <= b THEN a ELSE b
Max(a, b) == IF a >= b THEN a ELSE b

(***************************************************************************)
(* Tokens.                                                                 *)
(***************************************************************************)
Lit(str) == [k |-> "lit", s |-> str, n |-> 0]
Num(v) == [k |-> "num", s |-> "", n |-> v]
Path(f) == [k |-> "path", s |-> "", n |-> f]
Msg(str) == [k |-> "msg", s |-> str, n |-> 0]

NL == Lit("\n")
RATED_LOWER == Lit("rated at ")
RATED_UPPER == Lit("RATED AT ")
SLASH10 == Lit("/10")

\* str.lower() on the literals that differ by case; re.IGNORECASE compares so.
Lower(str) == IF str = "RATED AT " THEN "rated at " ELSE str

\* \s : the whitespace the patterns let stand between their parts.
IsSpace(tok) == tok = NL
IsNumber(tok) == tok.k = "num"

RECURSIVE SkipSpace(_, _)
SkipSpace(text, i) ==
    IF i <= Len(text) /\ IsSpace(text[i]) THEN SkipSpace(text, i + 1) ELSE i

(***************************************************************************)
(* run_pylint, lines 38-53: the two searches of the tool's output.         *)
(***************************************************************************)
\* The position of the number when  (-?\d+(?:\.\d+)?)\s*/\s*10  matches at i, else 0.
AnyRatingAt(text, i) ==
    IF i <= Len(text) /\ IsNumber(text[i])
    THEN LET j == SkipSpace(text, i + 1)
         IN  IF j <= Len(text) /\ text[j] = SLASH10 THEN i ELSE 0
    ELSE 0

\* "rated at\s+" under re.IGNORECASE.
RatedAtLiteral(tok) == tok.k = "lit" /\ Lower(tok.s) = "rated at "

\* The position of the number when  rated at\s+(-?\d+(?:\.\d+)?)\s*/\s*10  matches at i, else 0.
RatedAtAt(text, i) ==
    IF i <= Len(text) /\ RatedAtLiteral(text[i])
    THEN AnyRatingAt(text, SkipSpace(text, i + 1))
    ELSE 0

\* re.search: the leftmost position the pattern matches at, as the position of
\* its group 1; 0 when it matches nowhere.
RECURSIVE SearchFrom(_, _, _)
SearchFrom(text, i, rated) ==
    IF i > Len(text) THEN 0
    ELSE LET g == IF rated THEN RatedAtAt(text, i) ELSE AnyRatingAt(text, i)
         IN  IF g # 0 THEN g ELSE SearchFrom(text, i + 1, rated)

SearchRatedAt(text) == SearchFrom(text, 1, TRUE)
SearchAnyRating(text) == SearchFrom(text, 1, FALSE)

ParseScore_FallbackFirst(output) ==
    LET m2 == SearchAnyRating(output)
        m == SearchRatedAt(output)
    IN  IF m2 # 0 THEN Round2(output[m2].n)
        ELSE IF m # 0 THEN Round2(output[m].n)
        ELSE 0

\* Lines 38-53: the score the parser returns for the captured output.
ParseScore(output) ==
    LET m == SearchRatedAt(output)
        m2 == SearchAnyRating(output)
    IN  IF m # 0 THEN Round2(output[m].n)
        ELSE IF m2 # 0 THEN Round2(output[m2].n)
        ELSE 0


(***************************************************************************)
(* The collaborators.  A snippet is known to the program only through what *)
(* the lint tool, cc_visit and h_visit do with it, so a snippet is the     *)
(* record [lint, cc, hal] of what these deterministic collaborators        *)
(* answer for it.                                                          *)
(*   lint: [kind, rc, stdout, stderr], kind "notfound" (FileNotFoundError),*)
(*         "timeout" (TimeoutExpired), "error" (another exception) or      *)
(*         "ran"; in stdout and stderr Path(0) stands for the file name    *)
(*         the tool was given, which it prints in its message lines.       *)
(*   cc:   [raises, units], each unit given by its cc_rank letter.         *)
(*   hal:  [raises, recs], each record [attrs, effort, bugs], attrs the    *)
(*         attributes the record has.                                      *)
(***************************************************************************)
Ranks == {"A", "B", "C", "D", "E", "F"}

HalsteadRecord(a, e, b) == [attrs |-> a, effort |-> e, bugs |-> b]

\* What the lint subprocess prints when run on the file `filename`.
Render(text, filename) ==
    [i \in 1..Len(text) |-> IF text[i].k = "path" THEN Path(filename) ELSE text[i]]

\* run_pylint(filename), lines 16-53: the pair (score, output).  (The message
\* of line 32 holds two backquotes, which a string of this language cannot.)
RunPylint(tool, filename) ==
    IF tool.kind = "notfound"
    THEN [score |-> 0,
          output |-> <<Lit("Pylint not found. Install pylint (pip install pylint).")>>]
    ELSE IF tool.kind = "timeout"
    THEN [score |-> 0, output |-> <<Lit("Pylint timed out.")>>]
    ELSE IF tool.kind = "error"
    THEN [score |-> 0, output |-> <<Lit("Pylint error: "), Msg("subprocess failed")>>]
    ELSE LET output == Render(tool.stdout, filename) \o <<NL>>
                           \o Render(tool.stderr, filename)
         IN  [score |-> ParseScore(output), output |-> output]

(***************************************************************************)
(* cc_to_score, lines 56-61.                                               *)
(***************************************************************************)
Mapping(rank) ==
    CASE rank = "A" -> 10
      [] rank = "B" -> 8
      [] rank = "C" -> 6
      [] rank = "D" -> 4
      [] rank = "E" -> 2
      [] rank = "F" -> 0
      [] OTHER -> 0

RECURSIVE SumScores(_)
SumScores(units) ==
    IF units = <<>> THEN 0 ELSE Mapping(Head(units)) + SumScores(Tail(units))

CcToScore(cc_results) ==
    IF cc_results = <<>> THEN Ten
    ELSE Round2Ratio(SumScores(cc_results), Len(cc_results))

(***************************************************************************)
(* halstead_scores, lines 64-79.                                           *)
(***************************************************************************)
\* getattr(h, name, 0.0)
GetAttr(h, name) ==
    IF name \in h.attrs THEN (IF name = "effort" THEN h.effort ELSE h.bugs) ELSE 0

RECURSIVE MaxEffort(_)
MaxEffort(halstead) ==
    IF Len(halstead) = 1 THEN GetAttr(halstead[1], "effort")
    ELSE Max(GetAttr(Head(halstead), "effort"), MaxEffort(Tail(halstead)))

RECURSIVE SumBugs(_)
SumBugs(halstead) ==
    IF halstead = <<>> THEN 0
    ELSE GetAttr(Head(halstead), "bugs") + SumBugs(Tail(halstead))

\* math.log10(n) in fixed point, exact to the fourth decimal for n = d * 10^k
\* with one leading digit d, which is every n the model applies it to.
RECURSIVE Log10(_)
Log10(n) ==
    IF n >= 10 THEN Unit + Log10(n \div 10)
    ELSE CASE n = 1 -> 0
           [] n = 2 -> 3010
           [] n = 3 -> 4771
           [] n = 4 -> 6021
           [] n = 5 -> 6990
           [] n = 6 -> 7782
           [] n = 7 -> 8451
           [] n = 8 -> 9031
           [] n = 9 -> 9542

HalsteadScores_FirstBugs(halstead) ==
    IF halstead = <<>>
    THEN [effort_score |-> Ten, bug_score |-> Ten, effort |-> 0, bugs |-> 0]
    ELSE LET raw_effort == MaxEffort(halstead)
             raw_bugs == GetAttr(halstead[1], "bugs")
             effort_score == IF raw_effort <= 0 THEN Ten
                             ELSE Max(0, Min(Ten, Ten - 2 * Log10(raw_effort + 1)))
             bug_score == Max(0, Min(Ten, Ten - 10 * raw_bugs))
         IN  [effort_score |-> Round2(effort_score), bug_score |-> Round2(bug_score),
              effort |-> raw_effort, bugs |-> raw_bugs]

HalsteadScores(halstead) ==
    IF halstead = <<>>
    THEN [effort_score |-> Ten, bug_score |-> Ten, effort |-> 0, bugs |-> 0]
    ELSE LET raw_effort == MaxEffort(halstead)
             raw_bugs == SumBugs(halstead)
             effort_score == IF raw_effort <= 0 THEN Ten
                             ELSE Max(0, Min(Ten, Ten - 2 * Log10(raw_effort + 1)))
             bug_score == Max(0, Min(Ten, Ten - 10 * raw_bugs))
         IN  [effort_score |-> Round2(effort_score), bug_score |-> Round2(bug_score),
              effort |-> raw_effort, bugs |-> raw_bugs]

(***************************************************************************)
(* analyze_code_string, lines 82-122: its locals and its three stages.     *)
(* A local that is not assigned yet reads 0 or the empty string.           *)
(***************************************************************************)
NoLocals ==
    [pylint_score |-> 0, pylint_output |-> <<>>, cc_score |-> 0,
     effort_score |-> 0, bug_score |-> 0, effort |-> 0, bugs |-> 0]

\* Line 91.
LintStage(code_str, filename, l) ==
    LET got == RunPylint(code_str[1].lint, filename)
    IN  [l EXCEPT !.pylint_score = got.score, !.pylint_output = got.output]

CcStage_SkippedAfterLintFailure(code_str, l) ==
    IF code_str[1].lint.kind # "ran" THEN l
    ELSE IF code_str[1].cc.raises
    THEN [l EXCEPT !.cc_score = 0,
                   !.pylint_output = @ \o <<NL, Lit("Radon CC error: "),
                                            Msg("cc_visit failed")>>]
    ELSE [l EXCEPT !.cc_score = CcToScore(code_str[1].cc.units)]

CcStage_ReplacesLog(code_str, l) ==
    IF code_str[1].cc.raises
    THEN [l EXCEPT !.cc_score = 0,
                   !.pylint_output = <<NL, Lit("Radon CC error: "),
                                       Msg("cc_visit failed")>>]
    ELSE [l EXCEPT !.cc_score = CcToScore(code_str[1].cc.units)]

\* Lines 92-98.
CcStage(code_str, l) ==
    IF code_str[1].cc.raises
    THEN [l EXCEPT !.cc_score = 0,
                   !.pylint_output = @ \o <<NL, Lit("Radon CC error: "),
                                            Msg("cc_visit failed")>>]
    ELSE [l EXCEPT !.cc_score = CcToScore(code_str[1].cc.units)]

\* Lines 100-105.
HalsteadStage(code_str, l) ==
    IF code_str[1].hal.raises
    THEN [l EXCEPT !.effort_score = 0, !.bug_score = 0, !.effort = 0, !.bugs = 0,
                   !.pylint_output = @ \o <<NL, Lit("Halstead error: "),
                                            Msg("h_visit failed")>>]
    ELSE LET got == HalsteadScores(code_str[1].hal.recs)
         IN  [l EXCEPT !.effort_score = got.effort_score, !.bug_score = got.bug_score,
                       !.effort = got.effort, !.bugs = got.bugs]

\* Lines 107-117: the dict that is returned.
ResultDict(l) ==
    [pylint_score |-> l.pylint_score, pylint_output |-> l.pylint_output,
     cc_score |-> l.cc_score, effort_score |-> l.effort_score,
     bug_score |-> l.bug_score, raw_effort |-> l.effort, raw_bugs |-> l.bugs,
     test_pass_rate |-> "10/10", maintainability |-> "10/10"]

(***************************************************************************)
(* The text of the form field: pieces of whitespace and at most one        *)
(* snippet.  str.strip() drops the whitespace at both ends.                *)
(***************************************************************************)
WS == [ws |-> TRUE]

RECURSIVE StripLeft(_)
StripLeft(text) ==
    IF text # <<>> /\ Head(text) = WS THEN StripLeft(Tail(text)) ELSE text

RECURSIVE StripRight(_)
StripRight(text) ==
    IF text # <<>> /\ text[Len(text)] = WS
    THEN StripRight(SubSeq(text, 1, Len(text) - 1))
    ELSE text

Strip(text) == StripRight(StripLeft(text))

(***************************************************************************)
(* The state.                                                              *)
(***************************************************************************)
VARIABLES
    pc,           \* where each request is in index() / analyze_code_string()
    form,         \* the request: [method, code_text]
    code,         \* index(): the local `code`
    fullpath,     \* analyze_code_string(): the temporary file's name, 0 before
    loc,          \* analyze_code_string(): the other locals
    results,      \* index(): the local `results`, <<>> while unassigned
    has_attr,     \* hasattr(app, "all_results")
    all_results,  \* app.all_results
    files,        \* the names of the files in tempfile.gettempdir()
    uuids,        \* the uuid4 values drawn so far (each draw is a new one)
    calls,        \* the collaborators each request has called, in order
    response      \* what each request answered: [status, rows]

vars == <<pc, form, code, fullpath, loc, results, has_attr, all_results,
          files, uuids, calls, response>>

Req == 1..MaxRequests

NoForm == [method |-> "", code_text |-> <<>>]
NoResponse == [status |-> 0, rows |-> 0]

\* The process right after the module is loaded: no request yet, and app has
\* no attribute all_results (line 129 creates it on the first request).
Start ==
    /\ pc = [r \in Req |-> "idle"]
    /\ form = [r \in Req |-> NoForm]
    /\ code = [r \in Req |-> <<>>]
    /\ fullpath = [r \in Req |-> 0]
    /\ loc = [r \in Req |-> NoLocals]
    /\ results = [r \in Req |-> <<>>]
    /\ has_attr = FALSE
    /\ all_results = <<>>
    /\ files = {}
    /\ uuids = 0
    /\ calls = [r \in Req |-> <<>>]
    /\ response = [r \in Req |-> NoResponse]

(***************************************************************************)
(* index(), lines 127-189, with analyze_code_string() inlined.             *)
(***************************************************************************)
\* A request arrives; line 128.
Begin(r, forms) ==
    /\ pc[r] = "idle"
    /\ \E f \in forms : form' = [form EXCEPT ![r] = f]
    /\ code' = [code EXCEPT ![r] = <<>>]
    /\ pc' = [pc EXCEPT ![r] = "hasattr"]
    /\ UNCHANGED <<fullpath, loc, results, has_attr, all_results, files, uuids,
                   calls, response>>

\* Line 129.
HasAttr(r) ==
    /\ pc[r] = "hasattr"
    /\ pc' = [pc EXCEPT ![r] = IF has_attr THEN "method" ELSE "create"]
    /\ UNCHANGED <<form, code, fullpath, loc, results, has_attr, all_results,
                   files, uuids, calls, response>>

\* Line 130.
Create(r) ==
    /\ pc[r] = "create"
    /\ has_attr' = TRUE
    /\ all_results' = <<>>
    /\ pc' = [pc EXCEPT ![r] = "method"]
    /\ UNCHANGED <<form, code, fullpath, loc, results, files, uuids, calls,
                   response>>

\* Lines 132-134.
Method(r) ==
    /\ pc[r] = "method"
    /\ IF form[r].method = "POST"
       THEN LET c == Strip(form[r].code_text)
            IN  /\ code' = [code EXCEPT ![r] = c]
                /\ pc' = [pc EXCEPT ![r] = IF c # <<>> THEN "open" ELSE "render"]
       ELSE /\ pc' = [pc EXCEPT ![r] = "render"]
            /\ UNCHANGED code
    /\ UNCHANGED <<form, fullpath, loc, results, has_attr, all_results, files,
                   uuids, calls, response>>

\* Lines 83-87: the name is drawn and the file opened for writing, which
\* creates it; open() may raise OSError, and nothing catches it.
Open(r) ==
    /\ pc[r] = "open"
    /\ uuids' = uuids + 1
    /\ fullpath' = [fullpath EXCEPT ![r] = uuids + 1]
    /\ loc' = [loc EXCEPT ![r] = NoLocals]
    /\ \E ok \in BOOLEAN :
          IF ok
          THEN /\ files' = files \cup {uuids + 1}
               /\ pc' = [pc EXCEPT ![r] = "write"]
               /\ UNCHANGED response
          ELSE /\ pc' = [pc EXCEPT ![r] = "raised"]
               /\ response' = [response EXCEPT ![r] = [status |-> 500, rows |-> 0]]
               /\ UNCHANGED files
    /\ UNCHANGED <<form, code, results, has_attr, all_results, calls>>

\* Line 88: f.write(code_str) may raise (OSError, UnicodeEncodeError); the
\* with statement closes the file and the exception leaves the function, the
\* try of line 90 not being entered yet.
Write(r) ==
    /\ pc[r] = "write"
    /\ \E ok \in BOOLEAN :
          IF ok
          THEN /\ pc' = [pc EXCEPT ![r] = "pylint"]
               /\ UNCHANGED response
          ELSE /\ pc' = [pc EXCEPT ![r] = "raised"]
               /\ response' = [response EXCEPT ![r] = [status |-> 500, rows |-> 0]]
    /\ UNCHANGED <<form, code, fullpath, loc, results, has_attr, all_results,
                   files, uuids, calls>>

\* Line 91: the lint tool reads the file line 88 wrote.
Pylint(r) ==
    /\ pc[r] = "pylint"
    /\ loc' = [loc EXCEPT ![r] = LintStage(code[r], fullpath[r], @)]
    /\ calls' = [calls EXCEPT ![r] = Append(@, "pylint")]
    /\ pc' = [pc EXCEPT ![r] = "cc"]
    /\ UNCHANGED <<form, code, fullpath, results, has_attr, all_results, files,
                   uuids, response>>

\* Lines 92-98.
Cc(r) ==
    /\ pc[r] = "cc"
    /\ loc' = [loc EXCEPT ![r] = CcStage(code[r], @)]
    /\ calls' = [calls EXCEPT ![r] = Append(@, "cc_visit")]
    /\ pc' = [pc EXCEPT ![r] = "halstead"]
    /\ UNCHANGED <<form, code, fullpath, results, has_attr, all_results, files,
                   uuids, response>>

\* Lines 100-105.
Halstead(r) ==
    /\ pc[r] = "halstead"
    /\ loc' = [loc EXCEPT ![r] = HalsteadStage(code[r], @)]
    /\ calls' = [calls EXCEPT ![r] = Append(@, "h_visit")]
    /\ pc' = [pc EXCEPT ![r] = "finally"]
    /\ UNCHANGED <<form, code, fullpath, results, has_attr, all_results, files,
                   uuids, response>>

\* Lines 107-122 and 135: the dict is built, os.remove is tried (its failure
\* is swallowed) and the dict is returned to index().
Finally(r) ==
    /\ pc[r] = "finally"
    /\ \E ok \in BOOLEAN :
          files' = IF ok THEN files \ {fullpath[r]} ELSE files
    /\ calls' = [calls EXCEPT ![r] = Append(@, "remove")]
    /\ results' = [results EXCEPT ![r] = <<ResultDict(loc[r])>>]
    /\ pc' = [pc EXCEPT ![r] = "append"]
    /\ UNCHANGED <<form, code, fullpath, loc, has_attr, all_results, uuids,
                   response>>

\* Line 136.
AppendResult(r) ==
    /\ pc[r] = "append"
    /\ all_results' = Append(all_results, results[r][1])
    /\ pc' = [pc EXCEPT ![r] = "render"]
    /\ UNCHANGED <<form, code, fullpath, loc, results, has_attr, files, uuids,
                   calls, response>>

\* Lines 138-189: one table row per record of app.all_results.
RenderPage(r) ==
    /\ pc[r] = "render"
    /\ response' = [response EXCEPT ![r] = [status |-> 200, rows |-> Len(all_results)]]
    /\ pc' = [pc EXCEPT ![r] = "done"]
    /\ UNCHANGED <<form, code, fullpath, loc, results, has_attr, all_results,
                   files, uuids, calls>>

Step(r) ==
    \/ HasAttr(r)
    \/ Create(r)
    \/ Method(r)
    \/ Open(r)
    \/ Write(r)
    \/ Pylint(r)
    \/ Cc(r)
    \/ Halstead(r)
    \/ Finally(r)
    \/ AppendResult(r)
    \/ RenderPage(r)

(***************************************************************************)
(* The inputs.                                                             *)
(***************************************************************************)
SeqsUpTo(S, n) == UNION {[1..k -> S] : k \in 0..n}

Ran(rc, out, err) == [kind |-> "ran", rc |-> rc, stdout |-> out, stderr |-> err]
Failed(kind) == [kind |-> kind, rc |-> 0, stdout |-> <<>>, stderr |-> <<>>]

\* The lint tool's answers: pylint exits 0 on clean code and nonzero (a bit
\* mask of the message categories) when it has messages; its message lines
\* begin with the path of the file; pylint before 2.13 rates below zero.
LintClean == Ran(0, <<RATED_LOWER, Num(Ten), SLASH10>>, <<>>)
LintMessages ==
    Ran(16, <<Path(0), Lit(":1:0: C0114: Missing module docstring"), NL,
              RATED_LOWER, Num(75000), SLASH10>>, <<>>)
LintNegative ==
    Ran(30, <<Path(0), Lit(":1:0: E0602: Undefined variable"), NL,
              RATED_UPPER, Num(-35000), SLASH10>>, <<>>)
LintUsage == Ran(32, <<>>, <<Lit("usage: pylint [options]")>>)
LintOtherRating == Ran(0, <<Lit("score "), Num(120000), SLASH10>>, <<>>)

LintOutcomes ==
    {Failed("notfound"), Failed("timeout"), Failed("error"),
     LintClean, LintMessages, LintNegative, LintUsage, LintOtherRating}

CcOutcomes ==
    {[raises |-> TRUE, units |-> <<>>]}
        \cup {[raises |-> FALSE, units |-> u] : u \in SeqsUpTo(Ranks, MaxUnits)}

EffortValues == {0, 1, 999, 99999, 4999999}
BugValues == {0, 123, 500, Unit, 2 * Unit}

HalsteadRecords ==
    {HalsteadRecord(a, IF "effort" \in a THEN e ELSE 0, IF "bugs" \in a THEN b ELSE 0) :
        a \in SUBSET {"effort", "bugs"}, e \in EffortValues, b \in BugValues}

HalOutcomes ==
    {[raises |-> FALSE, recs |-> h] : h \in SeqsUpTo(HalsteadRecords, MaxRecords)}

HalOutcomesFew ==
    {[raises |-> TRUE, recs |-> <<>>],
     [raises |-> FALSE, recs |-> <<>>],
     [raises |-> FALSE, recs |-> <<HalsteadRecord({"effort", "bugs"}, 999, 500)>>],
     [raises |-> FALSE, recs |-> <<HalsteadRecord({"effort", "bugs"}, 1, 123)>>],
     [raises |-> FALSE, recs |-> <<HalsteadRecord({"effort", "bugs"}, 4999999, 2 * Unit),
                                   HalsteadRecord({}, 0, 0)>>]}

Snippet(l, c, h) == [lint |-> l, cc |-> c, hal |-> h]

\* The snippets of the single-request specification.
Snippets == {Snippet(l, c, h) : l \in LintOutcomes, c \in CcOutcomes, h \in HalOutcomesFew}

\* The snippets of the many-request specifications: clean code, code with
\* messages, code that does not parse.
SnippetClean ==
    Snippet(LintClean, [raises |-> FALSE, units |-> <<"A">>],
            [raises |-> FALSE, recs |-> <<HalsteadRecord({"effort", "bugs"}, 999, 500)>>])
SnippetMessages ==
    Snippet(LintMessages, [raises |-> FALSE, units |-> <<"A", "C">>],
            [raises |-> FALSE, recs |-> <<HalsteadRecord({"effort", "bugs"}, 1, 123)>>])
SnippetBroken ==
    Snippet(Failed("timeout"), [raises |-> TRUE, units |-> <<>>],
            [raises |-> TRUE, recs |-> <<>>])
AppSnippets == {SnippetClean, SnippetMessages, SnippetBroken}

Post(text) == [method |-> "POST", code_text |-> text]
AppForms ==
    {[method |-> "GET", code_text |-> <<>>], Post(<<>>), Post(<<WS>>)}
        \cup {Post(<<sn>>) : sn \in AppSnippets}
        \cup {Post(<<WS, sn, WS>>) : sn \in AppSnippets}
AnalyzeForms == {Post(<<sn>>) : sn \in Snippets}

\* The tool outputs the parser is run on: a text never holds two numeric
\* literals side by side (a token is a maximal numeric literal).
ParserTokens ==
    {RATED_LOWER, RATED_UPPER, SLASH10, NL, Num(75540), Num(-35000), Num(30000)}
ParserTexts ==
    {t \in SeqsUpTo(ParserTokens, MaxText) :
        \A i \in 1..(Len(t) - 1) : ~(IsNumber(t[i]) /\ IsNumber(t[i + 1]))}

(***************************************************************************)
(* The specifications.                                                     *)
(***************************************************************************)
\* Requests are numbered in the order they arrive.
Arrives(r) == \A q \in 1..(r - 1) : pc[q] # "idle"
Ended(r) == pc[r] \in {"done", "raised"}

Init == Start

\* The threaded server: the requests' handlers interleave.
Next == \E r \in Req : (Arrives(r) /\ Begin(r, AppForms)) \/ Step(r)

Spec == Init /\ [][Next]_vars

\* One request at a time.
NextSeq ==
    \E r \in Req : ((\A q \in 1..(r - 1) : Ended(q)) /\ Begin(r, AppForms)) \/ Step(r)

SpecSeq == Init /\ [][NextSeq]_vars

\* One request, over every snippet of Snippets.
NextAnalyze == Begin(1, AnalyzeForms) \/ Step(1)

SpecAnalyze == Init /\ [][NextAnalyze]_vars

\* Request 1 has written its file and is about to run the stage `at`.
InStage(at, snippets) ==
    \E sn \in snippets :
        /\ pc = [r \in Req |-> IF r = 1 THEN at ELSE "idle"]
        /\ form = [r \in Req |-> IF r = 1 THEN Post(<<sn>>) ELSE NoForm]
        /\ code = [r \in Req |-> IF r = 1 THEN <<sn>> ELSE <<>>]
        /\ fullpath = [r \in Req |-> IF r = 1 THEN 1 ELSE 0]
        /\ loc = [r \in Req |->
                    IF r = 1 /\ at = "halstead"
                    THEN CcStage(<<sn>>, LintStage(<<sn>>, 1, NoLocals))
                    ELSE NoLocals]
        /\ results = [r \in Req |-> <<>>]
        /\ has_attr = TRUE
        /\ all_results = <<>>
        /\ files = {1}
        /\ uuids = 1
        /\ calls = [r \in Req |->
                      IF r = 1 /\ at = "halstead" THEN <<"pylint", "cc_visit">> ELSE <<>>]
        /\ response = [r \in Req |-> NoResponse]

\* The parser of run_pylint on every text of ParserTexts.
InitParser ==
    InStage("pylint", {Snippet(Ran(0, t, <<>>), [raises |-> FALSE, units |-> <<>>],
                               [raises |-> FALSE, recs |-> <<>>]) : t \in ParserTexts})
NextParser == Pylint(1)
SpecParser == InitParser /\ [][NextParser]_vars

\* halstead_scores on every collection of HalOutcomes.
InitHalstead ==
    InStage("halstead", {Snippet(LintClean, [raises |-> FALSE, units |-> <<>>], h) :
                            h \in HalOutcomes})
NextHalstead == Halstead(1)
SpecHalstead == InitHalstead /\ [][NextHalstead]_vars

(***************************************************************************)
(* The claims.                                                             *)
(***************************************************************************)
\* analyze_code_string was entered by request r and has ended.
Entered(r) == code[r] # <<>> /\ pc[r] \in {"append", "render", "done", "raised"}
\* analyze_code_string returned its dict to request r.
Returned(r) == results[r] # <<>>

InRange(x) == 0 <= x /\ x <= Ten

IsPrefix(a, b) == Len(a) <= Len(b) /\ SubSeq(b, 1, Len(a)) = a

\* C1: every call of analyze_code_string returns one complete result record
\* and never raises to its caller, whatever the collaborators and the
\* temporary file's write and delete do.
C1_NeverRaises ==
    \A r \in Req : Entered(r) => (pc[r] # "raised" /\ Returned(r))

\* C2: in every returned record the lint, complexity, effort and bug scores
\* all lie in [0,10], also when the tool's text rates below 0 or above 10.
C2_ScoresInRange ==
    \A r \in Req :
        Returned(r) =>
            /\ InRange(results[r][1].pylint_score)
            /\ InRange(results[r][1].cc_score)
            /\ InRange(results[r][1].effort_score)
            /\ InRange(results[r][1].bug_score)

\* C3: the stages are isolated: whatever the lint stage did (tool missing,
\* timed out, failed, ran), the complexity and the Halstead stage both ran
\* after it and their scores are those the scorers give for the snippet
\* alone; the complexity stage failing leaves the Halstead scores and the
\* lint score what they are without that failure.
C3_StageIsolation ==
    \A r \in Req :
        Returned(r) =>
            LET sn == code[r][1]
                d == results[r][1]
                h == HalsteadScores(sn.hal.recs)
            IN  /\ calls[r] = <<"pylint", "cc_visit", "h_visit", "remove">>
                /\ d.cc_score = IF sn.cc.raises THEN 0 ELSE CcToScore(sn.cc.units)
                /\ <<d.effort_score, d.bug_score, d.raw_effort, d.raw_bugs>> =
                       IF sn.hal.raises THEN <<0, 0, 0, 0>>
                       ELSE <<h.effort_score, h.bug_score, h.effort, h.bugs>>
                /\ d.pylint_score = RunPylint(sn.lint, fullpath[r]).score

\* The lint tool timed out, and the record holds the complexity and Halstead
\* scores of a snippet with two code units and one Halstead record.
C3_Witness ==
    \E r \in Req :
        /\ Returned(r)
        /\ code[r][1].lint.kind = "timeout"
        /\ code[r][1].cc = [raises |-> FALSE, units |-> <<"A", "C">>]
        /\ results[r][1].cc_score = 8 * Unit
        /\ ~code[r][1].hal.raises
        /\ results[r][1].raw_effort = 999
        /\ results[r][1].effort_score = 4 * Unit
        /\ results[r][1].bug_score = 95000

\* A line "<Stage> error: <message>" stands in the text.
HasErrorLine(text, stage) ==
    \E i \in 1..(Len(text) - 1) :
        text[i] = Lit(stage) /\ text[i + 1].k = "msg"

\* What the lint subprocess printed for request r: stdout, "\n", stderr.
Captured(r) ==
    Render(code[r][1].lint.stdout, fullpath[r]) \o <<NL>>
        \o Render(code[r][1].lint.stderr, fullpath[r])

NoRating(text) ==
    \A i \in 1..Len(text) : RatedAtAt(text, i) = 0 /\ AnyRatingAt(text, i) = 0

\* C4 as stated: every failure of the taxonomy (tool unavailable, timeout,
\* execution error, nonzero exit, output without a rating, a raising
\* extractor) sets the stage's scores to 0.0 and appends a line
\* "<Stage> error: <message>" to lintOutput, the captured text being kept.
C4_EveryFailureLogged ==
    \A r \in Req :
        Returned(r) =>
            LET sn == code[r][1]
                d == results[r][1]
            IN  /\ sn.lint.kind \in {"notfound", "timeout", "error"} =>
                       d.pylint_score = 0 /\ HasErrorLine(d.pylint_output, "Pylint error: ")
                /\ (sn.lint.kind = "ran" /\ (sn.lint.rc # 0 \/ NoRating(Captured(r)))) =>
                       /\ d.pylint_score = 0
                       /\ HasErrorLine(d.pylint_output, "Pylint error: ")
                       /\ IsPrefix(Captured(r), d.pylint_output)
                /\ sn.cc.raises =>
                       d.cc_score = 0 /\ HasErrorLine(d.pylint_output, "Radon CC error: ")
                /\ sn.hal.raises =>
                       /\ d.effort_score = 0 /\ d.bug_score = 0
                       /\ HasErrorLine(d.pylint_output, "Halstead error: ")

\* The text the lint stage leaves in lintOutput.
LintText(r) ==
    LET kind == code[r][1].lint.kind
    IN  IF kind = "notfound"
        THEN <<Lit("Pylint not found. Install pylint (pip install pylint).")>>
        ELSE IF kind = "timeout" THEN <<Lit("Pylint timed out.")>>
        ELSE IF kind = "error" THEN <<Lit("Pylint error: "), Msg("subprocess failed")>>
        ELSE Captured(r)

\* C4 as amended: a raising complexity or Halstead extractor sets that
\* stage's scores to 0.0 and appends "\nRadon CC error: <message>" or
\* "\nHalstead error: <message>" to lintOutput after the text already there;
\* a tool that is missing, times out or raises gives lint score 0.0 and the
\* synthetic message "Pylint not found. ...", "Pylint timed out." or
\* "Pylint error: <message>" as the text; an output without a rating gives
\* lint score 0.0 and the captured text with no line added; a nonzero exit is
\* no failure, the score being the rating parsed from the captured text.
C4_FailureHandling ==
    \A r \in Req :
        Returned(r) =>
            LET sn == code[r][1]
                d == results[r][1]
                ccLine == IF sn.cc.raises
                          THEN <<NL, Lit("Radon CC error: "), Msg("cc_visit failed")>>
                          ELSE <<>>
                halLine == IF sn.hal.raises
                           THEN <<NL, Lit("Halstead error: "), Msg("h_visit failed")>>
                           ELSE <<>>
            IN  /\ d.pylint_output = LintText(r) \o ccLine \o halLine
                /\ sn.lint.kind # "ran" => d.pylint_score = 0
                /\ (sn.lint.kind = "ran" /\ NoRating(Captured(r))) => d.pylint_score = 0
                /\ (sn.lint.kind = "ran" /\ ~NoRating(Captured(r))) =>
                       d.pylint_score = ParseScore(Captured(r))
                /\ sn.cc.raises => d.cc_score = 0
                /\ sn.hal.raises =>
                       d.effort_score = 0 /\ d.bug_score = 0
                           /\ d.raw_effort = 0 /\ d.raw_bugs = 0

\* Every stage failed: the tool is missing and both extractors raised; the
\* record holds three zero scores and the three messages in order.
C4_Witness ==
    \E r \in Req :
        /\ Returned(r)
        /\ code[r][1].lint.kind = "notfound"
        /\ code[r][1].cc.raises
        /\ code[r][1].hal.raises
        /\ results[r][1].pylint_score = 0
        /\ Len(results[r][1].pylint_output) = 7
        /\ HasErrorLine(results[r][1].pylint_output, "Radon CC error: ")
        /\ HasErrorLine(results[r][1].pylint_output, "Halstead error: ")

\* C5: once an invocation of analyze_code_string has ended, on any exit path
\* (return, a failed stage, a failed write), the temporary file it created no
\* longer exists.
C5_ArtifactRemoved ==
    \A r \in Req : (Entered(r) /\ fullpath[r] # 0) => fullpath[r] \notin files

\* The requests that submitted a snippet, in arrival order.
RECURSIVE SubmissionsUpTo(_)
SubmissionsUpTo(n) ==
    IF n = 0 THEN <<>>
    ELSE IF code[n] # <<>> THEN Append(SubmissionsUpTo(n - 1), n)
    ELSE SubmissionsUpTo(n - 1)

\* C6: after N sequential submissions the history holds exactly N records,
\* the record at position i being the one produced for the i-th submission.
C6_HistoryIsSubmissions ==
    (\A r \in Req : pc[r] = "idle" \/ Ended(r)) =>
        LET subs == SubmissionsUpTo(MaxRequests)
        IN  /\ Len(all_results) = Len(subs)
            /\ \A i \in 1..Len(subs) : results[subs[i]] = <<all_results[i]>>

\* C7: under interleaved requests no update of the history is lost: once all
\* requests have ended, the history holds one record for each request whose
\* analysis returned one.
C7_NoLostUpdate ==
    (\A r \in Req : Ended(r)) =>
        Len(all_results) = Cardinality({r \in Req : Returned(r)})

\* C8: two invocations on the same snippet, with deterministic collaborators,
\* return records that are equal field by field.
C8_Idempotent ==
    \A r1, r2 \in Req :
        (Returned(r1) /\ Returned(r2) /\ code[r1] = code[r2]) =>
            results[r1] = results[r2]

\* The parser has run for request r.
Parsed(r) == pc[r] = "cc" /\ code[r][1].lint.kind = "ran"

RatedPositions(text) == {i \in 1..Len(text) : RatedAtAt(text, i) # 0}
AnyPositions(text) == {i \in 1..Len(text) : AnyRatingAt(text, i) # 0}
Least(S) == CHOOSE i \in S : \A j \in S : i <= j

\* The X the claim speaks of: of the first "rated at X/10" when there is one,
\* else of the first "X/10" when there is one; <<>> when there is neither.
SelectedRating(text) ==
    IF RatedPositions(text) # {} THEN <<text[RatedAtAt(text, Least(RatedPositions(text)))].n>>
    ELSE IF AnyPositions(text) # {} THEN <<text[Least(AnyPositions(text))].n>>
    ELSE <<>>

\* C9 as stated: the score is the X of "rated at X/10" (in any case of
\* letters) when the text has one, even after an earlier "Y/10"; else the X
\* of the first "X/10"; else 0.0; and the text is returned unchanged.
C9_ParserSelection ==
    \A r \in Req :
        Parsed(r) =>
            LET x == SelectedRating(Captured(r))
            IN  /\ loc[r].pylint_score = IF x = <<>> THEN 0 ELSE x[1]
                /\ loc[r].pylint_output = Captured(r)

\* C9 as amended: the same, the score being X rounded to two decimals.
C9_ParserSelectionRounded ==
    \A r \in Req :
        Parsed(r) =>
            LET x == SelectedRating(Captured(r))
            IN  /\ loc[r].pylint_score = IF x = <<>> THEN 0 ELSE Round2(x[1])
                /\ loc[r].pylint_output = Captured(r)

\* The text is "3/10RATED AT 7.554/10" and the score is 7.55.
C9_Witness ==
    \E r \in Req :
        /\ Parsed(r)
        /\ code[r][1].lint.stdout = <<Num(30000), SLASH10, RATED_UPPER, Num(75540), SLASH10>>
        /\ loc[r].pylint_score = 75500

\* halstead_scores has run for request r.
Scored(r) == pc[r] = "finally" /\ ~code[r][1].hal.raises

Clamp(x) == IF x < 0 THEN 0 ELSE IF x > Ten THEN Ten ELSE x

\* C10 as stated: rawEffort is the largest effort and rawBugs the sum of the
\* bugs of the records (a missing value counting 0.0), bugScore is
\* 10 - 10*rawBugs clamped to [0,10], so 0.0 from rawBugs = 1.0 on, and no
\* record at all gives (10.0, 10.0, 0.0, 0.0).
C10_HalsteadAggregation ==
    \A r \in Req :
        Scored(r) =>
            LET recs == code[r][1].hal.recs
                efforts == {GetAttr(recs[i], "effort") : i \in 1..Len(recs)}
            IN  IF recs = <<>>
                THEN /\ loc[r].effort_score = Ten /\ loc[r].bug_score = Ten
                     /\ loc[r].effort = 0 /\ loc[r].bugs = 0
                ELSE /\ loc[r].effort \in efforts
                     /\ \A e \in efforts : e <= loc[r].effort
                     /\ loc[r].bugs = SumBugs(recs)
                     /\ loc[r].bug_score = Clamp(Ten - 10 * loc[r].bugs)
                     /\ loc[r].bugs >= Unit => loc[r].bug_score = 0

\* C10 as amended: the same, bugScore being the clamped value rounded to two
\* decimals.
C10_HalsteadAggregationRounded ==
    \A r \in Req :
        Scored(r) =>
            LET recs == code[r][1].hal.recs
                efforts == {GetAttr(recs[i], "effort") : i \in 1..Len(recs)}
            IN  IF recs = <<>>
                THEN /\ loc[r].effort_score = Ten /\ loc[r].bug_score = Ten
                     /\ loc[r].effort = 0 /\ loc[r].bugs = 0
                ELSE /\ loc[r].effort \in efforts
                     /\ \A e \in efforts : e <= loc[r].effort
                     /\ loc[r].bugs = SumBugs(recs)
                     /\ loc[r].bug_score = Round2(Clamp(Ten - 10 * loc[r].bugs))
                     /\ loc[r].bugs >= Unit => loc[r].bug_score = 0

\* Two records, the second without an effort: rawEffort 999, rawBugs
\* 0.0123 + 0.05 = 0.0623, bugScore round(9.377, 2) = 9.38.
C10_Witness ==
    \E r \in Req :
        /\ Scored(r)
        /\ code[r][1].hal.recs = <<HalsteadRecord({"effort", "bugs"}, 999, 123),
                                   HalsteadRecord({"bugs"}, 0, 500)>>
        /\ loc[r].effort = 999
        /\ loc[r].bugs = 623
        /\ loc[r].bug_score = 93800

=============================================================================
